---- MODULE Spec2Model ----
(***************************************************************************)
(* The two Playwright scrapers of the repository:                          *)
(*   src/vball_training_scrape.py  (categories -> events)                  *)
(*   src/vball_camps_scrape.py     (one page -> camps)                     *)
(* Text is a sequence of one-character strings, so that normalisation,     *)
(* case folding, containment and the regular expressions of the source are *)
(* computed, character by character, the way the code computes them.       *)
(***************************************************************************)
EXTENDS Integers, Sequences, FiniteSets, TLC

\* ------------------------------------------------------------------ bounds
\* Most categories a run is configured with (Spec).
MaxCategories == 2
\* Most cards on a page drawn from the card pools (CardSpec).
MaxCards == 2

\* ------------------------------------------------------------ text literals
T_Dates == <<"D", "a", "t", "e", "s">>
T_RegistrationStarts == <<"R", "e", "g", "i", "s", "t", "r", "a", "t", "i", "o", "n", " ", "S", "t", "a", "r", "t", "s">>
T_EventName == <<"E", "v", "e", "n", "t", " ", "N", "a", "m", "e">>
T_DaysAndTime == <<"D", "a", "y", "s", " ", "&", " ", "T", "i", "m", "e">>
T_Days == <<"D", "a", "y", "s">>
T_TRAINING == <<"T", "R", "A", "I", "N", "I", "N", "G">>
T_AM == <<"A", "M">>
T_PM == <<"P", "M">>
T_beginner == <<"b", "e", "g", "i", "n", "n", "e", "r">>
T_TrainingBeginner10U == <<"T", "r", "a", "i", "n", "i", "n", "g", ":", " ", "B", "e", "g", "i", "n", "n", "e", "r", " ", "1", "0", "U">>
T_TrainingAdvanced14U == <<"T", "r", "a", "i", "n", "i", "n", "g", ":", " ", "A", "d", "v", "a", "n", "c", "e", "d", " ", "1", "4", "U", "+">>
T_AdvancedTraining == <<"A", "d", "v", "a", "n", "c", "e", "d", " ", "T", "r", "a", "i", "n", "i", "n", "g">>
T_BeginnerCamp == <<"B", "e", "g", "i", "n", "n", "e", "r", " ", "C", "a", "m", "p">>
T_BeginnerCampRaw == <<" ", "B", "e", "g", "i", "n", "n", "e", "r", " ", "\n", "\t", "C", "a", "m", "p", " ">>
T_Blank == <<" ", "\n", " ">>
T_June2025 == <<"J", "u", "n", "e", " ", "2", "0", "2", "5">>
T_July2025 == <<"J", "u", "l", "y", " ", "2", "0", "2", "5">>
T_May1 == <<"M", "a", "y", " ", "1">>
T_May2Raw == <<"M", "a", "y", " ", " ", "2">>
T_May2 == <<"M", "a", "y", " ", "2">>
T_VOLLEYBALLTRAINING == <<"V", "O", "L", "L", "E", "Y", "B", "A", "L", "L", " ", "T", "R", "A", "I", "N", "I", "N", "G">>
T_Aug14 == <<"A", "u", "g", " ", "1", "4", ",", " ", "2", "0", "2", "5">>
T_6PM == <<"6", ":", "0", "0", " ", "P", "M">>
T_Thu6PM == <<"T", "h", "u", " ", "6", ":", "0", "0", " ", "P", "M">>
T_Mon == <<"M", "o", "n">>
T_SkillsClinic == <<"S", "k", "i", "l", "l", "s", " ", "C", "l", "i", "n", "i", "c">>
T_OpenGym == <<"O", "p", "e", "n", " ", "G", "y", "m">>
T_Location == <<"L", "o", "c", "a", "t", "i", "o", "n">>
T_Gym == <<"G", "y", "m">>
Months == {<<"J", "A", "N">>, <<"F", "E", "B">>, <<"M", "A", "R">>, <<"A", "P", "R">>, <<"M", "A", "Y">>, <<"J", "U", "N">>, <<"J", "U", "L">>, <<"A", "U", "G">>, <<"S", "E", "P">>, <<"S", "E", "P", "T">>, <<"O", "C", "T">>, <<"N", "O", "V">>, <<"D", "E", "C">>}
UpperLetters == <<"A", "B", "C", "D", "E", "F", "G", "H", "I", "J", "K", "L", "M", "N", "O", "P", "Q", "R", "S", "T", "U", "V", "W", "X", "Y", "Z">>
LowerLetters == <<"a", "b", "c", "d", "e", "f", "g", "h", "i", "j", "k", "l", "m", "n", "o", "p", "q", "r", "s", "t", "u", "v", "w", "x", "y", "z">>

\* -------------------------------------------------------------- text helpers
\* Characters that the regular expression class \s and str.strip() treat as
\* whitespace (those that occur in the modelled texts).
IsSpace(c) == c \in {" ", "\n", "\t"}

IndexOf(c, letters) ==
    IF \E k \in 1..Len(letters) : letters[k] = c
    THEN CHOOSE k \in 1..Len(letters) : letters[k] = c
    ELSE 0

UpperChar(c) ==
    LET k == IndexOf(c, LowerLetters) IN IF k > 0 THEN UpperLetters[k] ELSE c

LowerChar(c) ==
    LET k == IndexOf(c, UpperLetters) IN IF k > 0 THEN LowerLetters[k] ELSE c

\* str.upper() and str.lower()
Upper(s) == [k \in 1..Len(s) |-> UpperChar(s[k])]
Lower(s) == [k \in 1..Len(s) |-> LowerChar(s[k])]

IsDigit(c) == c \in {"0", "1", "2", "3", "4", "5", "6", "7", "8", "9"}

\* the regular expression class \w
IsWordChar(c) ==
    \/ IndexOf(c, UpperLetters) > 0
    \/ IndexOf(c, LowerLetters) > 0
    \/ IsDigit(c)
    \/ c = "_"

\* Python's `sub in s`
Contains(sub, s) ==
    \E k \in 0..(Len(s) - Len(sub)) : SubSeq(s, k + 1, k + Len(sub)) = sub

\* str.endswith
EndsWith(s, suf) ==
    /\ Len(suf) <= Len(s)
    /\ SubSeq(s, Len(s) - Len(suf) + 1, Len(s)) = suf

Min(S) == CHOOSE k \in S : \A m \in S : k <= m
Max(S) == CHOOSE k \in S : \A m \in S : k >= m

\* str.strip(): what lies between the first and the last non-whitespace character
Strip(s) ==
    LET solid == {k \in 1..Len(s) : ~IsSpace(s[k])}
    IN IF solid = {} THEN <<>> ELSE SubSeq(s, Min(solid), Max(solid))

\* re.sub(r"\s+", " ", s): every maximal run of whitespace becomes one space
\* (the first character of a run is kept, as a space; the rest of it goes)
CollapseSpace(s) ==
    LET kept == SelectSeq([k \in 1..Len(s) |-> k],
                          LAMBDA k : ~IsSpace(s[k]) \/ k = 1 \/ ~IsSpace(s[k - 1]))
    IN [n \in 1..Len(kept) |-> IF IsSpace(s[kept[n]]) THEN " " ELSE s[kept[n]]]

\* _normalize_space of both scrapers
_normalize_space(s) == Strip(CollapseSpace(s))

\* str.split("\n"): the pieces between the newlines
SplitLines(s) ==
    LET nl == SelectSeq([k \in 1..Len(s) |-> k], LAMBDA k : s[k] = "\n")
    IN [n \in 1..(Len(nl) + 1) |->
          SubSeq(s, IF n = 1 THEN 1 ELSE nl[n - 1] + 1,
                    IF n <= Len(nl) THEN nl[n] - 1 ELSE Len(s))]

\* [ln.strip() for ln in raw.split("\n") if ln.strip()]
RECURSIVE StripNonEmpty(_)
StripNonEmpty(ls) ==
    IF ls = <<>> THEN <<>>
    ELSE IF Strip(Head(ls)) # <<>>
         THEN <<Strip(Head(ls))>> \o StripNonEmpty(Tail(ls))
         ELSE StripNonEmpty(Tail(ls))

TextLines(raw) == StripNonEmpty(SplitLines(raw))

\* re.search(r"\b(w1|w2|...)\b", ln, re.I) for words made of \w characters:
\* some occurrence of some word, compared in upper case, with a word boundary
\* on both sides.
SearchWord(words, ln) ==
    \E w \in words :
        \E k \in 1..(Len(ln) - Len(w) + 1) :
            /\ Upper(SubSeq(ln, k, k + Len(w) - 1)) = w
            /\ (k = 1 \/ ~IsWordChar(ln[k - 1]))
            /\ (k + Len(w) - 1 = Len(ln) \/ ~IsWordChar(ln[k + Len(w)]))

\* re.search(r"\d{1,2}:\d{2}\s*(AM|PM)", ln, re.I)
SearchTime(ln) ==
    \E k \in 1..Len(ln) :
        /\ k + 3 <= Len(ln)
        /\ IsDigit(ln[k])
        /\ ln[k + 1] = ":"
        /\ IsDigit(ln[k + 2])
        /\ IsDigit(ln[k + 3])
        /\ \E j \in (k + 4)..(Len(ln) - 1) :
              /\ \A m \in (k + 4)..(j - 1) : IsSpace(ln[m])
              /\ Upper(SubSeq(ln, j, j + 1)) \in {T_AM, T_PM}

\* line 119: ln.upper().endswith("TRAINING") or re.search(r"\bTRAINING\b", ln, re.I)
IsTitleLine(ln) == EndsWith(Upper(ln), T_TRAINING) \/ SearchWord({T_TRAINING}, ln)
\* line 122
IsDateLine(ln) == SearchWord(Months, ln)
\* line 125
IsTimeLine(ln) == SearchTime(ln)

\* ------------------------------------------------------------------ the DOM
\* What a locator resolves to: an element with its inner text, or nothing.
\* `.count()` of nothing is 0; `.inner_text()` of nothing raises (Playwright
\* waits for the element and times out).
El(t) == [here |-> TRUE, text |-> t]
NoEl == [here |-> FALSE, text |-> <<>>]

\* One <li> of a card: its <span> (the label) and its <p> (the value).
Li(span, p) == [span |-> span, p |-> p]

\* A season card (div.css-1y8xm4p-SeasonDetails-boxItemCss, or the grandparent
\* of a heading): its h3 heading and its <li> items.
SeasonCard(h3, items) == [h3 |-> h3, items |-> items]

\* An events-session block (ul[data-testid="events-session"]): its <li> items,
\* and the try blocks of lines 87-132 in which a lookup raises for this block.
EventBlock(items, raises) == [items |-> items, raises |-> raises]

\* A loaded page: the events-session blocks and the season cards it shows.
Page(uls, cards) == [uls |-> uls, cards |-> cards]
BlankPage == Page(<<>>, <<>>)

\* ------------------------------------------------- output records (dataclasses)
Event(title, date, time, signup_url) ==
    [title |-> title, date |-> date, time |-> time, signup_url |-> signup_url]

Camp(title, dates, registration_starts, signup_url) ==
    [title |-> title, dates |-> dates,
     registration_starts |-> registration_starts, signup_url |-> signup_url]

CAMPS_URL == "https://bondsports.co/activity/programs/CO_ED-youth-VOLLEYBALL/13552"

\* ----------------------------------------- extract_events_from_page, one block
\* span:has-text('...') of Playwright: the needle occurs in the element's
\* whitespace-normalised text, compared case-insensitively.
HasText(el, needle) ==
    el.here /\ Contains(Lower(needle), Lower(_normalize_space(el.text)))

\* ul.locator("li:has(span:has-text('<needle>')) p").first
FirstLabelledP(items, needle) ==
    LET hits == {k \in 1..Len(items) :
                    HasText(items[k].span, needle) /\ items[k].p.here}
    IN IF hits = {} THEN NoEl ELSE items[Min(hits)].p

\* ul.locator("li:has(span):nth-last-child(1) p").first
LastChildP(items) ==
    IF items # <<>> /\ items[Len(items)].span.here /\ items[Len(items)].p.here
    THEN items[Len(items)].p
    ELSE NoEl

\* lines 86-92
Tier1Title(ul) ==
    IF "title" \in ul.raises THEN <<>>
    ELSE LET title_locator == FirstLabelledP(ul.items, T_EventName)
         IN IF title_locator.here THEN _normalize_space(title_locator.text) ELSE <<>>

\* lines 94-100
Tier1Date(ul) ==
    IF "date" \in ul.raises THEN <<>>
    ELSE LET date_locator == FirstLabelledP(ul.items, T_Dates)
         IN IF date_locator.here THEN _normalize_space(date_locator.text) ELSE <<>>

\* lines 102-112
Tier1Time(ul) ==
    IF "time" \in ul.raises THEN <<>>
    ELSE LET l1 == FirstLabelledP(ul.items, T_DaysAndTime)
             l2 == IF ~l1.here THEN FirstLabelledP(ul.items, T_Days) ELSE l1
             l3 == IF ~l2.here THEN LastChildP(ul.items) ELSE l2
         IN IF l3.here THEN _normalize_space(l3.text) ELSE <<>>

\* ul.inner_text(): the rendered text, one line per element
RECURSIVE InnerText(_)
InnerText(items) ==
    IF items = <<>> THEN <<>>
    ELSE LET it == Head(items)
             a == IF it.span.here THEN it.span.text \o <<"\n">> ELSE <<>>
             b == IF it.p.here THEN it.p.text \o <<"\n">> ELSE <<>>
         IN a \o b \o InnerText(Tail(items))

\* lines 118-127: the loop over the lines, f = the fields found so far
RECURSIVE ScanLines(_, _)
ScanLines(lines, f) ==
    IF lines = <<>> THEN f
    ELSE LET ln == Head(lines)
             t == IF IsTitleLine(ln) /\ f.title = <<>> THEN ln ELSE f.title
             d == IF IsDateLine(ln) /\ f.date = <<>> THEN ln ELSE f.date
             h == IF IsTimeLine(ln) /\ f.time = <<>> THEN ln ELSE f.time
         IN ScanLines(Tail(lines), [title |-> t, date |-> d, time |-> h])

\* line 116-117: raw is normalised BEFORE it is split on "\n"
RawLines(ul) == TextLines(_normalize_space(InnerText(ul.items)))

\* lines 114-132: the text fallback
Tier2(ul, f) ==
    IF "text" \in ul.raises THEN f
    ELSE LET g == ScanLines(RawLines(ul), f)
         IN [title |-> _normalize_space(g.title),
             date |-> _normalize_space(g.date),
             time |-> _normalize_space(g.time)]

\* lines 86-132: the fields of one block after both tiers
BlockFields(ul) ==
    LET f == [title |-> Tier1Title(ul), date |-> Tier1Date(ul), time |-> Tier1Time(ul)]
    IN IF ~(f.title # <<>> /\ (f.date # <<>> \/ f.time # <<>>))
       THEN Tier2(ul, f)
       ELSE f


\* --------------------------- extract_events_from_season_cards, one card
\* lines 163-167
SeasonTitle(card) ==
    IF card.h3.here THEN _normalize_space(card.h3.text) ELSE <<>>

\* line 170: the card is skipped
SeasonSkipsCaseSensitive(title, filter_word) ==
    title = <<>> \/ ~Contains(filter_word, title)
SeasonSkips(title, filter_word) ==
    title = <<>> \/ ~Contains(Lower(filter_word), Lower(title))

\* lines 175-187: the loop over the card's <li>; a label lookup that raises
\* is caught by the outer try, which ends the loop.
RECURSIVE SeasonDate(_, _)
SeasonDate(items, date) ==
    IF items = <<>> THEN date
    ELSE LET item == Head(items)
         IN IF ~item.span.here THEN date
            ELSE IF _normalize_space(item.span.text) = T_Dates /\ item.p.here
                 THEN SeasonDate(Tail(items), _normalize_space(item.p.text))
                 ELSE SeasonDate(Tail(items), date)


\* ------------------------------------------------- extract_camps, one heading
\* lines 84-88
CampTitle(card) ==
    IF card.h3.here THEN _normalize_space(card.h3.text) ELSE <<>>

\* lines 96-115: the loop over the card's <li>, f = [dates, registration_starts]
RECURSIVE CampFieldsFirstWins(_, _)
CampFieldsFirstWins(items, f) ==
    IF items = <<>> THEN f
    ELSE LET item == Head(items)
         IN IF ~item.span.here THEN CampFieldsFirstWins(Tail(items), f)
            ELSE LET label == _normalize_space(item.span.text)
                     value == IF item.p.here THEN _normalize_space(item.p.text) ELSE <<>>
                 IN IF label = T_Dates /\ f.dates = <<>>
                    THEN CampFieldsFirstWins(Tail(items), [f EXCEPT !.dates = value])
                    ELSE IF label = T_RegistrationStarts /\ f.registration_starts = <<>>
                    THEN CampFieldsFirstWins(Tail(items), [f EXCEPT !.registration_starts = value])
                    ELSE CampFieldsFirstWins(Tail(items), f)
RECURSIVE CampFields(_, _)
CampFields(items, f) ==
    IF items = <<>> THEN f
    ELSE LET item == Head(items)
         IN IF ~item.span.here THEN CampFields(Tail(items), f)
            ELSE LET label == _normalize_space(item.span.text)
                     value == IF item.p.here THEN _normalize_space(item.p.text) ELSE <<>>
                 IN IF label = T_Dates
                    THEN CampFields(Tail(items), [f EXCEPT !.dates = value])
                    ELSE IF label = T_RegistrationStarts
                    THEN CampFields(Tail(items), [f EXCEPT !.registration_starts = value])
                    ELSE CampFields(Tail(items), f)


\* ------------------------------------------------------------- the card pools
\* Season cards the site may show (training season-card pages, camps page).
SC_Beginner10U ==
    SeasonCard(El(T_TrainingBeginner10U),
               <<Li(El(T_Dates), El(T_June2025)), Li(El(T_RegistrationStarts), El(T_May1))>>)
SC_Advanced14U == SeasonCard(El(T_TrainingAdvanced14U), <<>>)
SC_AdvancedTraining ==
    SeasonCard(El(T_AdvancedTraining), <<Li(El(T_Dates), El(T_June2025))>>)
SC_BeginnerCamp ==
    SeasonCard(El(T_BeginnerCamp), <<Li(El(T_RegistrationStarts), El(T_May1))>>)
SC_BlankTitle == SeasonCard(El(T_Blank), <<Li(El(T_Dates), El(T_June2025))>>)
SC_NoHeading == SeasonCard(NoEl, <<Li(El(T_Dates), El(T_June2025))>>)
SC_TwoDates ==
    SeasonCard(El(T_BeginnerCampRaw),
               <<Li(El(T_Dates), El(T_June2025)), Li(El(T_RegistrationStarts), El(T_May1)),
                 Li(El(T_Dates), El(T_July2025)), Li(El(T_RegistrationStarts), El(T_May2Raw))>>)
SC_LabelRaises ==
    SeasonCard(El(T_AdvancedTraining),
               <<Li(NoEl, El(T_Gym)), Li(El(T_Dates), El(T_June2025)),
                 Li(El(T_RegistrationStarts), El(T_May1))>>)
SC_ValueRaises ==
    SeasonCard(El(T_BeginnerCamp),
               <<Li(El(T_Dates), NoEl), Li(El(T_RegistrationStarts), El(T_May1))>>)
SC_LaterValueRaises ==
    SeasonCard(El(T_TrainingBeginner10U),
               <<Li(El(T_Dates), El(T_June2025)), Li(El(T_Dates), NoEl)>>)

SeasonPool ==
    {SC_Beginner10U, SC_Advanced14U, SC_AdvancedTraining, SC_BeginnerCamp,
     SC_BlankTitle, SC_NoHeading, SC_TwoDates, SC_LabelRaises, SC_ValueRaises,
     SC_LaterValueRaises}

\* Events-session blocks the site may show.
StructuredItems ==
    <<Li(El(T_EventName), El(T_VOLLEYBALLTRAINING)), Li(El(T_Dates), El(T_Aug14)),
      Li(El(T_DaysAndTime), El(T_Thu6PM))>>
UnlabelledItems ==
    <<Li(NoEl, El(T_VOLLEYBALLTRAINING)), Li(NoEl, El(T_Aug14)), Li(NoEl, El(T_6PM))>>

EB_Structured == EventBlock(StructuredItems, {})
EB_Unlabelled == EventBlock(UnlabelledItems, {})
EB_TitleRaises == EventBlock(StructuredItems, {"title"})
EB_DateTimeRaise == EventBlock(StructuredItems, {"date", "time"})
EB_TextRaises == EventBlock(UnlabelledItems, {"text"})
EB_BlankTitle ==
    EventBlock(<<Li(El(T_EventName), El(T_Blank)), Li(El(T_Dates), El(T_Aug14))>>, {})
EB_OpenGym == EventBlock(<<Li(NoEl, El(T_OpenGym))>>, {})
EB_DaysOnly ==
    EventBlock(<<Li(El(T_EventName), El(T_SkillsClinic)), Li(El(T_Days), El(T_Mon))>>, {})
EB_LastChild ==
    EventBlock(<<Li(El(T_EventName), El(T_SkillsClinic)), Li(El(T_Location), El(T_Gym))>>, {})
EB_TitleOnly ==
    EventBlock(<<Li(El(T_EventName), El(T_SkillsClinic)), Li(NoEl, El(T_Gym))>>, {})

EventPool ==
    {EB_Structured, EB_Unlabelled, EB_TitleRaises, EB_DateTimeRaise, EB_TextRaises,
     EB_BlankTitle, EB_OpenGym, EB_DaysOnly, EB_LastChild, EB_TitleOnly}

\* The per-card work of the three extractors, worked out once for every card
\* of the pools (a card's fields depend on the card alone).
BlockFieldsOfPool == [ul \in EventPool |-> BlockFields(ul)] @@ <<>>
SeasonFieldsOfPool ==
    [card \in SeasonPool |->
        [title |-> SeasonTitle(card), date |-> SeasonDate(card.items, <<>>)]] @@ <<>>
CampFieldsOfPool ==
    [card \in SeasonPool |->
        [title |-> CampTitle(card),
         f |-> CampFields(card.items, [dates |-> <<>>, registration_starts |-> <<>>])]] @@ <<>>

\* lines 134-138: what one block appends to events
EventOfBlockKeepsUntitled(ul, category_url) ==
    LET f == BlockFieldsOfPool[ul] IN <<Event(f.title, f.date, f.time, category_url)>>
EventOfBlock(ul, category_url) ==
    LET f == BlockFieldsOfPool[ul]
    IN IF f.title = <<>> THEN <<>>
       ELSE <<Event(f.title, f.date, f.time, category_url)>>

\* lines 160-189: what one card appends to events
EventOfSeasonCard(card, signup_url, filter_word) ==
    LET c == SeasonFieldsOfPool[card]
    IN IF SeasonSkips(c.title, filter_word) THEN <<>>
       ELSE <<Event(c.title, c.date, <<>>, signup_url)>>

\* lines 78-124: what one heading appends to camps
CampOfCard(card) ==
    LET c == CampFieldsOfPool[card]
    IN IF c.title = <<>> THEN <<>>
       ELSE <<Camp(c.title, c.f.dates, c.f.registration_starts, CAMPS_URL)>>

SeqsUpTo(S, n) == UNION {[1..k -> S] : k \in 0..n}

\* Every page of at most MaxCards cards of one layout.
PoolPages ==
    {Page(uls, <<>>) : uls \in SeqsUpTo(EventPool, MaxCards)}
        \cup {Page(<<>>, cards) : cards \in SeqsUpTo(SeasonPool, MaxCards)}

\* A few fixed pages, for the runs over several categories.
SamplePages ==
    {BlankPage,
     Page(<<EB_Structured, EB_OpenGym>>, <<SC_Beginner10U, SC_Advanced14U>>),
     Page(<<EB_Unlabelled>>, <<SC_NoHeading, SC_BeginnerCamp>>)}

WebPages(w) == IF w = "pool" THEN PoolPages ELSE SamplePages

\* ------------------------------------------------------------ configuration
\* Keys of CATEGORIES (lines 26-35), and further keys for longer configurations.
Keys == <<"beginner", "intermediate", "advanced", "elite">>

UrlOf(key) == <<"url", key>>
OverrideOf(key) == <<"signup", key>>

\* The shapes of a category's meta: as in CATEGORIES (label and url only), and
\* with the optional keys that run() reads (lines 225-227).
Metas(key) ==
    {[label |-> <<"label", key>>, url |-> UrlOf(key)],
     [label |-> <<"label", key>>, url |-> UrlOf(key),
      scrape_mode |-> "event_sessions", signup_url |-> OverrideOf(key)],
     [label |-> <<"label", key>>, url |-> UrlOf(key),
      scrape_mode |-> "season_cards", filter |-> T_beginner, signup_url |-> OverrideOf(key)],
     [label |-> <<"label", key>>, url |-> UrlOf(key),
      scrape_mode |-> "season_cards", filter |-> <<>>]}

\* dict.get(k, default)
Get(meta, k, default) == IF k \in DOMAIN meta THEN meta[k] ELSE default

\* The configurations of n categories: distinct keys, in order.
Configs(n) ==
    {c \in [1..n -> UNION {{[key |-> Keys[j], meta |-> m] : m \in Metas(Keys[j])} : j \in 1..n}] :
        \A j \in 1..n : c[j].key = Keys[j]}

\* ------------------------------------------------------------------- state
VARIABLES
    prog,        \* which script runs: "training" or "camps"
    web,         \* which pages the site can serve: "sample" or "pool"
    categories,  \* run()'s argument: the (key, meta) items in order
    pc,          \* position in run()
    idx,         \* position of the category loop (line 208)
    dom,         \* the page as loaded by the last successful-or-not page.goto
    i,           \* position of the card loop inside the extractor
    events,      \* the extractor's local list (events / camps)
    payload,     \* run()'s payload
    open,        \* the browser resources not yet closed
    outFile,     \* the output file
    trace        \* per finished category: how navigation and the element wait ended

vars == <<prog, web, categories, pc, idx, dom, i, events, payload, open, outFile, trace>>

\* payload["categories"] is a dict: assignment replaces the value of a key that
\* is present and appends a key that is not (insertion order is kept).
DictSet(d, k, v) ==
    IF \E j \in 1..Len(d) : d[j].key = k
    THEN [j \in 1..Len(d) |-> IF d[j].key = k THEN [key |-> k, value |-> v] ELSE d[j]]
    ELSE Append(d, [key |-> k, value |-> v])

DictGet(d, k) == (CHOOSE e \in {d[j] : j \in 1..Len(d)} : e.key = k).value

\* {"label": label, "url": url, "events": [...]}
CategoryResult(label, url, evs) == [label |-> label, url |-> url, events |-> evs]

\* lines 209-210 and 225-227
CurKey == categories[idx].key
CurMeta == categories[idx].meta
CurLabel == Get(CurMeta, "label", CurKey)
CurUrl == Get(CurMeta, "url", "")
CurMode == Get(CurMeta, "scrape_mode", "event_sessions")
CurSignupUrl == Get(CurMeta, "signup_url", CurUrl)
CurFilter == Get(CurMeta, "filter", <<>>)

\* lines 217 and 221: a failed navigation records the category with no events
OnGotoFailureSkips(cats, key, label, url) == cats
OnGotoFailure(cats, key, label, url) ==
    DictSet(cats, key, CategoryResult(label, url, <<>>))

\* line 242: an extraction error records the category with no events
OnExtractionError(cats, key, label, url) ==
    DictSet(cats, key, CategoryResult(label, url, <<>>))

\* lines 234-238
OnExtracted(cats, key, label, url, evs) ==
    DictSet(cats, key, CategoryResult(label, url, evs))

\* line 208: the loop goes on to the next item, or ends (line 244)
PcAfterCategory(k) == IF k < Len(categories) THEN "goto" ELSE "close_page"

\* lines 75-77 with 234-239: the timeout is caught inside the extractor
PcAfterWaitTimeoutEscapes(k) == "crashed"
PcAfterWaitTimeout(k) == PcAfterCategory(k)

\* lines 244-246 (training), 160-162 (camps)
CloseLeaks(res, o) == o
Close(res, o) == o \ {res}

AllOpen == {"page", "context", "browser"}

\* The cards the extractor of the current category enumerates (lines 79-80,
\* 155-156; camps 74-75).
CurCards ==
    IF prog = "training" /\ CurMode # "season_cards" THEN dom.uls ELSE dom.cards

\* ------------------------------------------------------------------- Init
InitCommon ==
    /\ pc = "start"
    /\ idx = 1
    /\ dom = BlankPage
    /\ i = 1
    /\ events = <<>>
    /\ open = {}
    /\ outFile = [written |-> FALSE, payload |-> <<>>]
    /\ trace = <<>>

InitTraining(w, sizes) ==
    /\ prog = "training"
    /\ web = w
    /\ \E n \in sizes : categories \in Configs(n)
    /\ payload = [generated_at |-> "now", categories |-> <<>>]
    /\ InitCommon

InitCamps(w) ==
    /\ prog = "camps"
    /\ web = w
    /\ categories = <<>>
    /\ payload = [generated_at |-> "now", signup_url |-> CAMPS_URL, camps |-> <<>>]
    /\ InitCommon

\* Runs of either script, over up to MaxCategories categories, on the sample pages.
Init == InitTraining("sample", 0..MaxCategories) \/ InitCamps("sample")

\* Runs of either script on one page of the card pools (training: one category).
CardInit == InitTraining("pool", {1}) \/ InitCamps("pool")

\* ------------------------------------------------------------------ actions
\* lines 203-206 (camps 140-143): the browser, the context and the page
Launch ==
    /\ pc = "start"
    /\ open' = AllOpen
    /\ pc' = IF prog = "training" THEN PcAfterCategory(0) ELSE "goto"
    /\ UNCHANGED <<prog, web, categories, idx, dom, i, events, payload, outFile, trace>>

\* the browsing engine cannot be acquired: the exception leaves run()
LaunchFails ==
    /\ pc = "start"
    /\ pc' = "crashed"
    /\ UNCHANGED <<prog, web, categories, idx, dom, i, events, payload, open, outFile, trace>>

\* training, lines 213-214: page.goto returns
TrainingGotoOk ==
    /\ prog = "training" /\ pc = "goto"
    /\ dom' \in WebPages(web)
    /\ pc' = "wait"
    /\ UNCHANGED <<prog, web, categories, idx, i, events, payload, open, outFile, trace>>

\* training, lines 215-222: page.goto raises; the category is recorded empty
\* and the loop continues
TrainingGotoFails ==
    /\ prog = "training" /\ pc = "goto"
    /\ \E how \in {"timeout", "error"} :
          trace' = Append(trace, [key |-> CurKey, nav |-> how, wait |-> "none"])
    /\ payload' = [payload EXCEPT
                     !.categories = OnGotoFailure(@, CurKey, CurLabel, CurUrl)]
    /\ dom' = BlankPage   \* whatever the page holds now is never read
    /\ idx' = idx + 1
    /\ pc' = PcAfterCategory(idx)
    /\ UNCHANGED <<prog, web, categories, i, events, open, outFile>>

\* training, lines 73-77 / 149-153 with 234-239: wait_for_selector times out,
\* the extractor returns its empty list and run() stores it
TrainingWaitTimeout ==
    /\ prog = "training" /\ pc = "wait"
    /\ payload' = [payload EXCEPT
                     !.categories = OnExtracted(@, CurKey, CurLabel, CurUrl, <<>>)]
    /\ trace' = Append(trace, [key |-> CurKey, nav |-> "ok", wait |-> "timeout"])
    /\ idx' = idx + 1
    /\ pc' = PcAfterWaitTimeout(idx)
    /\ UNCHANGED <<prog, web, categories, dom, i, events, open, outFile>>

\* training, lines 240-242: the extractor raises something else (the wait
\* fails with another error); run() records the category empty
TrainingWaitRaises ==
    /\ prog = "training" /\ pc = "wait"
    /\ payload' = [payload EXCEPT
                     !.categories = OnExtractionError(@, CurKey, CurLabel, CurUrl)]
    /\ trace' = Append(trace, [key |-> CurKey, nav |-> "ok", wait |-> "error"])
    /\ idx' = idx + 1
    /\ pc' = PcAfterCategory(idx)
    /\ UNCHANGED <<prog, web, categories, dom, i, events, open, outFile>>

\* training, lines 79-81 / 155-157: the marker is there, the cards are counted
TrainingWaitOk ==
    /\ prog = "training" /\ pc = "wait"
    /\ CurCards # <<>>
    /\ events' = <<>>
    /\ i' = 1
    /\ pc' = "cards"
    /\ UNCHANGED <<prog, web, categories, idx, dom, payload, open, outFile, trace>>

\* training, lines 83-138 / 159-189: one pass of the card loop
TrainingExtractCard ==
    /\ prog = "training" /\ pc = "cards"
    /\ i <= Len(CurCards)
    /\ events' = events \o
                  (IF CurMode = "season_cards"
                   THEN EventOfSeasonCard(CurCards[i], CurSignupUrl, CurFilter)
                   ELSE EventOfBlock(CurCards[i], CurUrl))
    /\ i' = i + 1
    /\ UNCHANGED <<prog, web, categories, pc, idx, dom, payload, open, outFile, trace>>

\* training, lines 140 / 191 and 234-239: the extractor returns, run() stores
TrainingReturn ==
    /\ prog = "training" /\ pc = "cards"
    /\ i > Len(CurCards)
    /\ payload' = [payload EXCEPT
                     !.categories = OnExtracted(@, CurKey, CurLabel, CurUrl, events)]
    /\ trace' = Append(trace, [key |-> CurKey, nav |-> "ok", wait |-> "ok"])
    /\ idx' = idx + 1
    /\ pc' = PcAfterCategory(idx)
    /\ UNCHANGED <<prog, web, categories, dom, i, events, open, outFile>>

\* camps, lines 146-147: page.goto returns
CampsGotoOk ==
    /\ prog = "camps" /\ pc = "goto"
    /\ dom' \in WebPages(web)
    /\ trace' = Append(trace, [key |-> "camps", nav |-> "ok", wait |-> "none"])
    /\ pc' = "wait"
    /\ UNCHANGED <<prog, web, categories, idx, i, events, payload, open, outFile>>

\* camps, lines 148-151: page.goto raises; only a log line, run() goes on to
\* the extraction on whatever the page shows (after a timeout: any page, the
\* network just never went idle; after another error: nothing)
CampsGotoFails ==
    /\ prog = "camps" /\ pc = "goto"
    /\ \E how \in {"timeout", "error"} :
          /\ trace' = Append(trace, [key |-> "camps", nav |-> how, wait |-> "none"])
          /\ dom' \in IF how = "timeout" THEN WebPages(web) ELSE {BlankPage}
    /\ pc' = "wait"
    /\ UNCHANGED <<prog, web, categories, idx, i, events, payload, open, outFile>>

\* camps, lines 66-70 with 154-156: the wait times out, extract_camps returns
\* its empty list and run() stores it
CampsWaitTimeout ==
    /\ prog = "camps" /\ pc = "wait"
    /\ payload' = [payload EXCEPT !.camps = <<>>]
    /\ trace' = [trace EXCEPT ![1].wait = "timeout"]
    /\ pc' = "close_page"
    /\ UNCHANGED <<prog, web, categories, idx, dom, i, events, open, outFile>>

\* camps, lines 157-158: extract_camps raises; payload["camps"] keeps its []
CampsWaitRaises ==
    /\ prog = "camps" /\ pc = "wait"
    /\ trace' = [trace EXCEPT ![1].wait = "error"]
    /\ pc' = "close_page"
    /\ UNCHANGED <<prog, web, categories, idx, dom, i, events, payload, open, outFile>>

\* camps, lines 74-76
CampsWaitOk ==
    /\ prog = "camps" /\ pc = "wait"
    /\ CurCards # <<>>
    /\ events' = <<>>
    /\ i' = 1
    /\ trace' = [trace EXCEPT ![1].wait = "ok"]
    /\ pc' = "cards"
    /\ UNCHANGED <<prog, web, categories, idx, dom, payload, open, outFile>>

\* camps, lines 78-124: one pass of the heading loop
CampsExtractCard ==
    /\ prog = "camps" /\ pc = "cards"
    /\ i <= Len(CurCards)
    /\ events' = events \o CampOfCard(CurCards[i])
    /\ i' = i + 1
    /\ UNCHANGED <<prog, web, categories, pc, idx, dom, payload, open, outFile, trace>>

\* camps, lines 126 and 154-156
CampsReturn ==
    /\ prog = "camps" /\ pc = "cards"
    /\ i > Len(CurCards)
    /\ payload' = [payload EXCEPT !.camps = events]
    /\ pc' = "close_page"
    /\ UNCHANGED <<prog, web, categories, idx, dom, i, events, open, outFile, trace>>

\* line 244 (camps 160)
ClosePage ==
    /\ pc = "close_page"
    /\ open' = Close("page", open)
    /\ pc' = "close_context"
    /\ UNCHANGED <<prog, web, categories, idx, dom, i, events, payload, outFile, trace>>

\* line 245 (camps 161)
CloseContext ==
    /\ pc = "close_context"
    /\ open' = Close("context", open)
    /\ pc' = "close_browser"
    /\ UNCHANGED <<prog, web, categories, idx, dom, i, events, payload, outFile, trace>>

\* line 246 (camps 162)
CloseBrowser ==
    /\ pc = "close_browser"
    /\ open' = Close("browser", open)
    /\ pc' = "write"
    /\ UNCHANGED <<prog, web, categories, idx, dom, i, events, payload, outFile, trace>>

\* lines 248-253 (camps 164-169): the file is overwritten with the payload
WriteOutput ==
    /\ pc = "write"
    /\ outFile' = [written |-> TRUE, payload |-> payload]
    /\ pc' = "done"
    /\ UNCHANGED <<prog, web, categories, idx, dom, i, events, payload, open, trace>>

Next ==
    \/ Launch
    \/ LaunchFails
    \/ TrainingGotoOk
    \/ TrainingGotoFails
    \/ TrainingWaitTimeout
    \/ TrainingWaitRaises
    \/ TrainingWaitOk
    \/ TrainingExtractCard
    \/ TrainingReturn
    \/ CampsGotoOk
    \/ CampsGotoFails
    \/ CampsWaitTimeout
    \/ CampsWaitRaises
    \/ CampsWaitOk
    \/ CampsExtractCard
    \/ CampsReturn
    \/ ClosePage
    \/ CloseContext
    \/ CloseBrowser
    \/ WriteOutput

Spec == Init /\ [][Next]_vars

CardSpec == CardInit /\ [][Next]_vars

\* run() is sequential and every step of it returns (each wait is bounded by
\* its timeout), so a run that can take a step takes one.
FairSpec == Init /\ [][Next]_vars /\ WF_vars(Next)

\* ===================================================================== claims
\* Helpers of the statements below (not part of the program).
HasKey(d, k) == \E j \in 1..Len(d) : d[j].key = k

ConfiguredKeys == {categories[j].key : j \in 1..Len(categories)}

\* The events recorded for category j of the configuration in payload p.
RecordedEvents(p, j) == DictGet(p.categories, categories[j].key).events

\* Every Event / Camp record of a payload.
RecordsOf(p) ==
    IF prog = "training"
    THEN UNION {{p.categories[j].value.events[k] :
                    k \in 1..Len(p.categories[j].value.events)} :
                j \in 1..Len(p.categories)}
    ELSE {p.camps[k] : k \in 1..Len(p.camps)}

\* The category loop has ended having handled every configured category.
AllProcessed ==
    IF prog = "training" THEN Len(trace) = Len(categories) ELSE Len(trace) = 1

NavFailed(j) == j <= Len(trace) /\ trace[j].nav \in {"timeout", "error"}
WaitTimedOut(j) == j <= Len(trace) /\ trace[j].wait = "timeout"

\* The result recorded in payload p for entry j of the trace is empty.
ResultEmpty(p, j) ==
    IF prog = "training"
    THEN HasKey(p.categories, trace[j].key) /\ RecordedEvents(p, j) = <<>>
    ELSE p.camps = <<>>

\* --------------------------------------------------------------------- C1
\* C1: when run() of the multi-category scraper has finished, the keys of
\* payload["categories"] are exactly the configured keys and each configured
\* key occurs exactly once, whatever way navigation and extraction ended for
\* each category.
C1_CategoryCompleteness ==
    (prog = "training" /\ pc = "done") =>
        LET d == outFile.payload.categories
        IN /\ {d[j].key : j \in 1..Len(d)} = ConfiguredKeys
           /\ \A k \in ConfiguredKeys :
                 Cardinality({j \in 1..Len(d) : d[j].key = k}) = 1

\* A finished run over two categories, the first lost to a navigation timeout
\* and the second to an extraction error.
C1_Witness ==
    /\ prog = "training" /\ pc = "done" /\ Len(categories) = 2
    /\ trace[1].nav = "timeout"
    /\ trace[2].wait = "error"
    /\ Len(outFile.payload.categories) = 2

\* --------------------------------------------------------------------- C2
\* C2: no Event or Camp of any payload, in memory or written, of either
\* scraper has an empty title, whatever cards the page shows in whatever
\* extraction mode.
C2_TitleRequired ==
    /\ \A r \in RecordsOf(payload) : r.title # <<>>
    /\ outFile.written => \A r \in RecordsOf(outFile.payload) : r.title # <<>>

\* A written event-session output of a page whose first block has a
\* whitespace-only title and nothing for the text fallback to find, and whose
\* second block is resolved through the text fallback.
C2_Witness ==
    /\ prog = "training" /\ pc = "done"
    /\ Get(categories[1].meta, "scrape_mode", "event_sessions") = "event_sessions"
    /\ dom.uls = <<EB_BlankTitle, EB_Unlabelled>>
    /\ trace[1].wait = "ok"
    /\ Len(RecordedEvents(outFile.payload, 1)) = 1

\* --------------------------------------------------------------------- C3
\* C3: in both scrapers a failed navigation (timeout or other error) is not
\* fatal and leaves an empty result for its scope: the multi-category scraper
\* records the category with no events and goes on; the camps scraper goes
\* on and its written payload has no camps.
C3_NavigationFailureEmpty ==
    /\ pc # "crashed" \/ open = {}
    /\ prog = "training" =>
          \A j \in 1..Len(trace) : NavFailed(j) => ResultEmpty(payload, j)
    /\ (prog = "camps" /\ pc = "done" /\ NavFailed(1)) =>
          outFile.payload.camps = <<>>

\* --------------------------------------------------------------------- C4
\* C4: once the element wait of a category has timed out, that category's
\* recorded result is empty, and the run goes on to finish: every category
\* is handled and the output file is written, with that category still empty.
C4_TimeoutDegradation ==
    /\ [](\A j \in 1..Len(trace) : WaitTimedOut(j) => ResultEmpty(payload, j))
    /\ ((\E j \in 1..Len(trace) : WaitTimedOut(j))
          ~> (/\ pc = "done"
              /\ outFile.written
              /\ AllProcessed
              /\ \A j \in 1..Len(trace) :
                    WaitTimedOut(j) => ResultEmpty(outFile.payload, j)))

\* A finished run whose first category timed out waiting and whose second
\* category was then extracted with events.
C4_Witness ==
    /\ prog = "training" /\ pc = "done" /\ Len(categories) = 2
    /\ trace[1].wait = "timeout"
    /\ trace[2].wait = "ok"
    /\ RecordedEvents(outFile.payload, 1) = <<>>
    /\ RecordedEvents(outFile.payload, 2) # <<>>

\* --------------------------------------------------------------------- C5
\* C5: in event-session mode a block without structured labels whose text
\* has the lines "VOLLEYBALL TRAINING", "Aug 14, 2025" and "6:00 PM" gives
\* one event whose title is exactly "VOLLEYBALL TRAINING", whose date
\* contains "Aug 14, 2025" and whose time contains "6:00 PM".
C5_TierFallback ==
    (/\ prog = "training" /\ pc = "done"
     /\ Get(categories[1].meta, "scrape_mode", "event_sessions") = "event_sessions"
     /\ trace[1].wait = "ok"
     /\ dom.uls = <<EB_Unlabelled>>) =>
        LET evs == RecordedEvents(outFile.payload, 1)
        IN /\ Len(evs) = 1
           /\ evs[1].title = T_VOLLEYBALLTRAINING
           /\ Contains(T_Aug14, evs[1].date)
           /\ Contains(T_6PM, evs[1].time)

\* --------------------------------------------------------------------- C6
\* The filter admits a title: it is empty, or it occurs in the title when
\* case is ignored.
C6_Admits(filter_word, title) ==
    \/ filter_word = <<>>
    \/ \E k \in 0..(Len(title) - Len(filter_word)) :
          Lower(SubSeq(title, k + 1, k + Len(filter_word))) = Lower(filter_word)

C6_HasDates(card) ==
    \E k \in 1..Len(card.items) :
        card.items[k].span.here /\ _normalize_space(card.items[k].span.text) = T_Dates

\* A finished season-card extraction of the one configured category.
C6_SeasonDone ==
    /\ prog = "training" /\ pc = "done"
    /\ Get(categories[1].meta, "scrape_mode", "event_sessions") = "season_cards"
    /\ trace[1].wait = "ok"

\* C6: in season-card mode the events are exactly the cards with a non-empty
\* extracted title that the filter admits, in page order; such a card
\* without a "Dates" item has date ""; with the three examples of the spec.
C6_SeasonFilter ==
    C6_SeasonDone =>
        LET filter_word == Get(categories[1].meta, "filter", <<>>)
            signup == Get(categories[1].meta, "signup_url", categories[1].meta.url)
            kept == SelectSeq(dom.cards,
                              LAMBDA c : /\ SeasonTitle(c) # <<>>
                                         /\ C6_Admits(filter_word, SeasonTitle(c)))
            evs == RecordedEvents(outFile.payload, 1)
        IN /\ Len(evs) = Len(kept)
           /\ \A k \in 1..Len(kept) :
                 /\ evs[k].title = SeasonTitle(kept[k])
                 /\ ~C6_HasDates(kept[k]) => evs[k].date = <<>>
           /\ (dom.cards = <<SC_Beginner10U, SC_Advanced14U>> /\ filter_word = T_beginner)
                 => [k \in 1..Len(evs) |-> evs[k].title] = <<T_TrainingBeginner10U>>
           /\ (dom.cards = <<SC_Beginner10U, SC_Advanced14U>> /\ filter_word = <<>>)
                 => [k \in 1..Len(evs) |-> evs[k].title]
                       = <<T_TrainingBeginner10U, T_TrainingAdvanced14U>>
           /\ (dom.cards = <<SC_AdvancedTraining, SC_BeginnerCamp>> /\ filter_word = <<>>)
                 => evs = <<Event(T_AdvancedTraining, T_June2025, <<>>, signup),
                            Event(T_BeginnerCamp, <<>>, <<>>, signup)>>

\* The end-to-end example: the two cards, no filter, both events in order.
C6_Witness ==
    /\ C6_SeasonDone
    /\ Get(categories[1].meta, "filter", <<>>) = <<>>
    /\ dom.cards = <<SC_AdvancedTraining, SC_BeginnerCamp>>
    /\ Len(RecordedEvents(outFile.payload, 1)) = 2

\* --------------------------------------------------------------------- C7
\* The cards that the camps extractor emits a record for, in page order.
TitledCards == SelectSeq(dom.cards, LAMBDA c : CampTitle(c) # <<>>)

\* The cards that the season-card extractor of category 1 emits an event for.
AdmittedCards ==
    SelectSeq(dom.cards,
              LAMBDA c : /\ SeasonTitle(c) # <<>>
                         /\ C6_Admits(Get(categories[1].meta, "filter", <<>>), SeasonTitle(c)))

\* A finished extraction of the camps page.
CampsDone == prog = "camps" /\ pc = "done" /\ trace[1].wait = "ok"

\* No lookup on the card's items raises.
C7_NoRaise(card) ==
    \A k \in 1..Len(card.items) : card.items[k].span.here /\ card.items[k].p.here

\* The normalised value of the first item of a card that carries the label.
C7_FirstValue(items, label) ==
    LET hits == {k \in 1..Len(items) : _normalize_space(items[k].span.text) = label}
    IN IF hits = {} THEN <<>> ELSE _normalize_space(items[Min(hits)].p.text)

\* C7 as stated: where several items of a card carry one label of interest,
\* the field has the normalised value of the FIRST of them; a label that is
\* absent gives the empty value (cards on which no lookup raises).
C7_FirstWins ==
    /\ CampsDone =>
          LET out == outFile.payload.camps
          IN /\ Len(out) = Len(TitledCards)
             /\ \A k \in 1..Len(TitledCards) :
                   C7_NoRaise(TitledCards[k]) =>
                      /\ out[k].dates = C7_FirstValue(TitledCards[k].items, T_Dates)
                      /\ out[k].registration_starts
                           = C7_FirstValue(TitledCards[k].items, T_RegistrationStarts)
    /\ C6_SeasonDone =>
          LET evs == RecordedEvents(outFile.payload, 1)
          IN /\ Len(evs) = Len(AdmittedCards)
             /\ \A k \in 1..Len(AdmittedCards) :
                   C7_NoRaise(AdmittedCards[k]) =>
                      evs[k].date = C7_FirstValue(AdmittedCards[k].items, T_Dates)

\* camps: the value of the last item whose label reads `label` (empty when
\* that item's value lookup raises; items whose label lookup raises are skipped)
C7_CampsLast(items, label) ==
    LET hits == {k \in 1..Len(items) :
                    items[k].span.here /\ _normalize_space(items[k].span.text) = label}
    IN IF hits = {} THEN <<>>
       ELSE IF items[Max(hits)].p.here
            THEN _normalize_space(items[Max(hits)].p.text)
            ELSE <<>>

\* training: the value of the last "Dates" item whose value was read, among
\* the items before the first one whose label lookup raises
C7_SeasonLast(items) ==
    LET stop == Min({k \in 1..Len(items) : ~items[k].span.here} \cup {Len(items) + 1})
        hits == {k \in 1..(stop - 1) :
                    /\ _normalize_space(items[k].span.text) = T_Dates
                    /\ items[k].p.here}
    IN IF hits = {} THEN <<>> ELSE _normalize_space(items[Max(hits)].p.text)

\* C7 amended: where several items of a card carry one label of interest,
\* the field has the normalised value of the LAST of them that was read (each
\* later one overwrites the earlier); a label that is absent gives the empty
\* value.
C7_LastWins ==
    /\ CampsDone =>
          LET out == outFile.payload.camps
          IN /\ Len(out) = Len(TitledCards)
             /\ \A k \in 1..Len(TitledCards) :
                   /\ out[k].dates = C7_CampsLast(TitledCards[k].items, T_Dates)
                   /\ out[k].registration_starts
                        = C7_CampsLast(TitledCards[k].items, T_RegistrationStarts)
    /\ C6_SeasonDone =>
          LET evs == RecordedEvents(outFile.payload, 1)
          IN /\ Len(evs) = Len(AdmittedCards)
             /\ \A k \in 1..Len(AdmittedCards) :
                   evs[k].date = C7_SeasonLast(AdmittedCards[k].items)

\* The camps page shows the card with two "Dates" and two "Registration
\* Starts" items: the camp has the values of the second of each.
C7_Witness ==
    /\ CampsDone
    /\ dom.cards = <<SC_TwoDates>>
    /\ Len(outFile.payload.camps) = 1
    /\ outFile.payload.camps[1].dates = T_July2025
    /\ outFile.payload.camps[1].registration_starts = T_May2

\* --------------------------------------------------------------------- C8
\* A card's items as they read without the failures: an item whose label
\* cannot be read carries no field, an item whose value cannot be read
\* carries the empty value.
C8_Repaired(items) ==
    LET readable == SelectSeq(items, LAMBDA it : it.span.here)
    IN [k \in 1..Len(readable) |->
          IF readable[k].p.here THEN readable[k] ELSE Li(readable[k].span, El(<<>>))]

\* The event-session blocks that the extractor emits an event for.
TitledBlocks == SelectSeq(dom.uls, LAMBDA ul : BlockFields(ul).title # <<>>)

EventsDone ==
    /\ prog = "training" /\ pc = "done"
    /\ Get(categories[1].meta, "scrape_mode", "event_sessions") = "event_sessions"
    /\ trace[1].wait = "ok"

\* C8, camps: a raising label or value lookup of one item changes nothing
\* but that item's field.
C8_Camps ==
    CampsDone =>
        LET out == outFile.payload.camps
        IN /\ Len(out) = Len(TitledCards)
           /\ \A k \in 1..Len(TitledCards) :
                 LET f == CampFields(C8_Repaired(TitledCards[k].items),
                                     [dates |-> <<>>, registration_starts |-> <<>>])
                 IN /\ out[k].dates = f.dates
                    /\ out[k].registration_starts = f.registration_starts

\* C8, training season cards
C8_Season ==
    C6_SeasonDone =>
        LET evs == RecordedEvents(outFile.payload, 1)
        IN /\ Len(evs) = Len(AdmittedCards)
           /\ \A k \in 1..Len(AdmittedCards) :
                 evs[k].date = SeasonDate(C8_Repaired(AdmittedCards[k].items), <<>>)

\* C8, event sessions: the fields whose lookups do not raise are those of
\* the block without the raising lookups.
C8_Events ==
    EventsDone =>
        LET evs == RecordedEvents(outFile.payload, 1)
        IN /\ Len(evs) = Len(TitledBlocks)
           /\ \A k \in 1..Len(TitledBlocks) :
                 LET ul == TitledBlocks[k]
                     healthy == BlockFields([ul EXCEPT !.raises = @ \cap {"text"}])
                 IN /\ "title" \notin ul.raises => evs[k].title = healthy.title
                    /\ "date" \notin ul.raises => evs[k].date = healthy.date
                    /\ "time" \notin ul.raises => evs[k].time = healthy.time

\* C8: a lookup that raises while the label or the value of one item of a
\* card is read empties that item's field only: the other items' fields are
\* what they are without the failure, the titled card is emitted and the
\* cards after it are handled -- in camps, in training season cards and in
\* event sessions.
C8_LookupFailureLocal == C8_Camps /\ C8_Season /\ C8_Events

\* --------------------------------------------------------------------- C9
\* C9: in every run that acquired the browser, navigation and extraction
\* happen only while page, context and browser are open; closing starts only
\* when every category has been handled; the file is written only when all
\* three are closed; and the run does get there, however the categories'
\* navigations and extractions ended.
C9_ResourcesReleased ==
    /\ [](pc \in {"goto", "wait", "cards"} => open = AllOpen)
    /\ [](pc \in {"close_page", "close_context", "close_browser", "write", "done"}
            => AllProcessed)
    /\ [](pc \in {"write", "done"} => open = {})
    /\ [](outFile.written => open = {})
    /\ (open # {} ~> (open = {} /\ pc = "done" /\ outFile.written))

\* A finished run, everything closed, after a navigation failure and an
\* extraction failure.
C9_Witness ==
    /\ prog = "training" /\ pc = "done" /\ open = {} /\ outFile.written
    /\ Len(categories) = 2
    /\ trace[1].nav = "error"
    /\ trace[2].wait = "error"

\* -------------------------------------------------------------------- C10
\* C10: every event recorded for a category carries as signup_url the
\* category's configured override when there is one and the category's page
\* url otherwise, in both extraction modes.
C10_SignupUrl ==
    prog = "training" =>
        \A j \in 1..Len(trace) :
            LET meta == categories[j].meta
                evs == RecordedEvents(payload, j)
            IN \A k \in 1..Len(evs) :
                  evs[k].signup_url = Get(meta, "signup_url", Get(meta, "url", ""))

====
